---- MODULE Spec2Model ----
(***************************************************************************)
(* State-machine model of src/linear/import_to_linear.py: the Linear CSV   *)
(* importer.  main() validates the configuration, fetches teams and        *)
(* projects, then walks the CSV rows in order; per row it resolves the     *)
(* parent id from parent_map, queries the team's labels, builds the        *)
(* issueCreate input and submits it, and registers created epics.          *)
(*                                                                         *)
(* Text that the code takes apart (Labels, Estimate) is a sequence of      *)
(* one-character strings; text that is only compared (Title, Parent, Type, *)
(* Priority) is a string.  Python's None is None in a string column and    *)
(* NoneText in a text column.  The Description / Acceptance Criteria       *)
(* concatenation (lines 260, 267-270) is not modelled.                     *)
(***************************************************************************)
EXTENDS Integers, Sequences, FiniteSets, TLC

\* ------------------------------------------------------------------ bounds
MaxRecords == 3
MaxFieldRecords == 1

\* --------------------------------------------------------------- constants
HTTP_OK == 200

None == "<None>"
NoneText == <<None>>
NoId == 0
NoData == [none |-> TRUE]
EmptyDict == [k \in {} |-> 0]

API_KEY_PLACEHOLDER == "YOUR_API_KEY_HERE"
TEAM_ID_PLACEHOLDER == "YOUR_TEAM_ID_HERE"
PROJECT_ID_PLACEHOLDER == "YOUR_PROJECT_ID_HERE"

\* ------------------------------------------------------------ text helpers
IsSpace(c) == c = " "

Tail_(s) == SubSeq(s, 2, Len(s))

Front_(s) == SubSeq(s, 1, Len(s) - 1)

RECURSIVE LStrip(_)
LStrip(s) == IF s # <<>> /\ IsSpace(s[1]) THEN LStrip(Tail_(s)) ELSE s

RECURSIVE RStrip(_)
RStrip(s) == IF s # <<>> /\ IsSpace(s[Len(s)]) THEN RStrip(Front_(s)) ELSE s

\* str.strip()
Strip(s) == RStrip(LStrip(s))

\* str.split(sep): never empty, "" splits to [""]
RECURSIVE Split(_, _)
Split(s, sep) ==
    IF \E i \in 1..Len(s) : s[i] = sep
    THEN LET i == CHOOSE j \in 1..Len(s) : s[j] = sep /\ \A k \in 1..(j - 1) : s[k] # sep
         IN  <<SubSeq(s, 1, i - 1)>> \o Split(SubSeq(s, i + 1, Len(s)), sep)
    ELSE <<s>>

\* [l.strip() for l in labels.split(",") if l.strip()]
SplitLabels(labels) ==
    LET parts == Split(labels, ",")
        stripped == [i \in 1..Len(parts) |-> Strip(parts[i])]
    IN  SelectSeq(stripped, LAMBDA l : l # <<>>)

\* ------------------------------------------------- float(estimate), int(..)
DigitChars == <<"0", "1", "2", "3", "4", "5", "6", "7", "8", "9">>

IsDigit(c) == \E i \in 1..10 : DigitChars[i] = c

DigitVal(c) == (CHOOSE i \in 1..10 : DigitChars[i] = c) - 1

RECURSIVE Pow10(_)
Pow10(n) == IF n = 0 THEN 1 ELSE 10 * Pow10(n - 1)

\* length of the longest prefix of digits
RECURSIVE DigitPrefix(_)
DigitPrefix(s) == IF s # <<>> /\ IsDigit(s[1]) THEN 1 + DigitPrefix(Tail_(s)) ELSE 0

\* value of a digit string (0 for the empty string)
RECURSIVE DigitsVal(_)
DigitsVal(s) == IF s = <<>> THEN 0 ELSE 10 * DigitsVal(Front_(s)) + DigitVal(s[Len(s)])

\* digits left once leading zeros are dropped
RECURSIVE SigDigits(_)
SigDigits(s) == IF s # <<>> /\ s[1] = "0" THEN SigDigits(Tail_(s)) ELSE Len(s)

IsSign(c) == c \in {"+", "-"}

Lower(c) ==
    CASE c = "I" -> "i" [] c = "N" -> "n" [] c = "F" -> "f" [] c = "A" -> "a"
      [] c = "E" -> "e" [] OTHER -> c

LowerText(s) == [i \in 1..Len(s) |-> Lower(s[i])]

InfWords == { <<"i", "n", "f">>, <<"i", "n", "f", "i", "n", "i", "t", "y">> }

NanWords == { <<"n", "a", "n">> }

FloatError == [kind |-> "ValueError"]

\* the largest finite double is below 1.8e308
MaxDecimalExponent == 309

\* float(): the value of the digits ip.fp with exponent ex
DecimalValue(ip, fp, ex, neg) ==
    LET digs  == ip \o fp
        scale == ex - Len(fp)
    IN  IF digs = <<>> THEN FloatError
        ELSE IF SigDigits(digs) > 0 /\ SigDigits(digs) + scale >= MaxDecimalExponent + 1
        THEN [kind |-> "inf", neg |-> neg]
        ELSE [kind |-> "num", neg |-> neg, digits |-> digs, scale |-> scale]

\* float(): the optional exponent  e [sign] digits  that ends the literal
DecimalExponent(ip, fp, rest, neg) ==
    IF rest = <<>> THEN DecimalValue(ip, fp, 0, neg)
    ELSE IF Lower(rest[1]) # "e" THEN FloatError
    ELSE LET signed == Len(rest) > 1 /\ IsSign(rest[2])
             ds     == SubSeq(rest, IF signed THEN 3 ELSE 2, Len(rest))
         IN  IF ds = <<>> \/ DigitPrefix(ds) # Len(ds) THEN FloatError
             ELSE DecimalValue(ip, fp,
                               IF signed /\ rest[2] = "-" THEN 0 - DigitsVal(ds)
                               ELSE DigitsVal(ds),
                               neg)

\* float(): the optional fraction  . digits
DecimalFraction(ip, rest, neg) ==
    IF rest # <<>> /\ rest[1] = "."
    THEN LET nf == DigitPrefix(Tail_(rest))
         IN  DecimalExponent(ip, SubSeq(rest, 2, nf + 1),
                             SubSeq(rest, nf + 2, Len(rest)), neg)
    ELSE DecimalExponent(ip, <<>>, rest, neg)

\* float(): the unsigned decimal literal  digits [. digits] [e [sign] digits]
ParseDecimal(body, neg) ==
    LET ni == DigitPrefix(body)
    IN  DecimalFraction(SubSeq(body, 1, ni), SubSeq(body, ni + 1, Len(body)), neg)

\* float(estimate) for a str
ParseFloat(text) ==
    LET s    == Strip(text)
        sgn  == s # <<>> /\ IsSign(s[1])
        neg  == sgn /\ s[1] = "-"
        body == IF sgn THEN Tail_(s) ELSE s
    IN  IF LowerText(body) \in InfWords THEN [kind |-> "inf", neg |-> neg]
        ELSE IF LowerText(body) \in NanWords THEN [kind |-> "nan", neg |-> neg]
        ELSE ParseDecimal(body, neg)

\* magnitude of a finite float, truncated toward zero
TruncMagnitude(f) ==
    IF SigDigits(f.digits) = 0 THEN 0
    ELSE IF f.scale >= 0
    THEN DigitsVal(f.digits) * Pow10(f.scale)
    ELSE IF 0 - f.scale >= Len(f.digits) THEN 0
    ELSE DigitsVal(SubSeq(f.digits, 1, Len(f.digits) + f.scale))

\* int(float(estimate)): [kind |-> "int", value] or the exception raised
IntOfFloat(text) ==
    LET f == ParseFloat(text)
    IN  CASE f.kind = "ValueError" -> [kind |-> "ValueError"]
          [] f.kind = "nan"        -> [kind |-> "ValueError"]
          [] f.kind = "inf"        -> [kind |-> "OverflowError"]
          [] OTHER -> [kind |-> "int",
                       value |-> IF f.neg THEN 0 - TruncMagnitude(f) ELSE TruncMagnitude(f)]

\* ------------------------------------------------------------------ state
VARIABLES
    LINEAR_API_KEY,  \* line 16
    TEAM_ID,         \* line 17
    PROJECT_ID,      \* line 18
    pc,              \* position of main(): start, teams, projects, open, loop,
                     \* labels, create, done, halted, error, crashed
    message,         \* the last status line main() printed
    teams,           \* main's local teams (line 213)
    projects,        \* main's local projects (line 231)
    header,          \* the column names csv.DictReader found
    rows,            \* the rows the reader has yielded so far, in order
    cur,             \* locals of the current loop iteration
    parent_map,      \* line 256
    sent,            \* every gateway request issued, in order
    submitted,       \* the issueCreate inputs sent, with the record index
    created,         \* what create_issue returned for each record it finished
    warnings,        \* the warnings printed
    response,        \* graphql_request's response (line 41) of the call last made
    returned         \* how many calls of requests.post (line 41) have ended

vars == << LINEAR_API_KEY, TEAM_ID, PROJECT_ID, pc, message, teams, projects,
           header, rows, cur, parent_map, sent, submitted, created, warnings,
           response, returned >>

\* ---------------------------------------------------- configuration values
VALID_API_KEY == "lin_api_key"
VALID_TEAM_ID == "team-1"
VALID_PROJECT_ID == "project-1"

ApiKeys == {"", API_KEY_PLACEHOLDER, VALID_API_KEY}

TeamIds == {"", TEAM_ID_PLACEHOLDER, VALID_TEAM_ID}

ProjectIds == {"", PROJECT_ID_PLACEHOLDER, VALID_PROJECT_ID}

\* ------------------------------------------------------------ the CSV file
Columns == {"Title", "Parent", "Type", "Labels", "Estimate", "Priority"}

\* the file may lack the Priority column
Headers == {Columns, Columns \ {"Priority"}}

Row(t, ty, p, l, e, pr) ==
    [Title |-> t, Type |-> ty, Parent |-> p, Labels |-> l, Estimate |-> e, Priority |-> pr]

\* rows that differ in Title, Type and Parent; the last one carries an
\* estimate that overflows a double
LinkRows ==
    { Row("A", "Epic", "",  <<>>, <<>>, "Medium"),
      Row("A", "Task", "",  <<>>, <<>>, "Medium"),
      Row("S", "Task", "A", <<>>, <<>>, "Medium"),
      Row("",  "Epic", "",  <<>>, <<>>, "Medium"),
      Row("T", "Task", "B", <<>>, <<"1", "e", "9", "9", "9">>, "Medium") }

\* rows that differ in Labels, Estimate and Priority; a short row leaves its
\* trailing columns None
FieldRows ==
    { Row("T", "Task", "", <<"b", ",", " ", "x">>,      <<"2", ".", "7">>,      "Urgent"),
      Row("T", "Task", "", <<" ", "b", " ", ",", "c">>, <<"-", "2", ".", "7">>, "High"),
      Row("T", "Task", "", <<"x", ",", ",", "b">>,      <<"1", "e", "2">>,      "Low"),
      Row("T", "Task", "", <<>>,                        <<"x">>,                "None"),
      Row("T", "Task", "", <<"b", ",", "b">>,           <<" ", "5", " ">>,      "urgent"),
      Row("T", "Task", "", <<>>,                        <<"n", "a", "n">>,      ""),
      Row("T", "Task", "", <<>>,                        <<"i", "n", "f">>,      "Medium"),
      Row("T", "Task", "", <<>>,                        <<"0">>,                "Highest"),
      Row("T", "Task", "", <<"c">>,                     NoneText,               None),
      Row("T", "Task", "", NoneText,                    NoneText,               None) }

\* the file contents considered: up to MaxRecords rows of LinkRows under the
\* full header, or up to MaxFieldRecords rows of FieldRows under the header h
InInput(rs, h) ==
    \/ /\ Len(rs) <= MaxRecords
       /\ (rs = <<>> \/ h = Columns)
       /\ \A i \in DOMAIN rs : rs[i] \in LinkRows
    \/ /\ Len(rs) <= MaxFieldRecords
       /\ \A i \in DOMAIN rs : \E r \in FieldRows : rs[i] = [c \in h |-> r[c]]

\* row.get(key, default)
RowGet(row, key, default) == IF key \in DOMAIN row THEN row[key] ELSE default

\* truthiness of a str-or-None value
Truthy(v) == v # None /\ v # ""

TruthyText(v) == v # NoneText /\ v # <<>>

\* ------------------------------------------------------- the remote service
Raise == [raises |-> TRUE, status |-> 0, errors |-> FALSE, data |-> NoData]

HttpError == [raises |-> FALSE, status |-> 500, errors |-> FALSE, data |-> NoData]

GraphqlError == [raises |-> FALSE, status |-> HTTP_OK, errors |-> TRUE, data |-> NoData]

Ok(d) == [raises |-> FALSE, status |-> HTTP_OK, errors |-> FALSE, data |-> d]

NoResponse == [raises |-> FALSE, status |-> 0, errors |-> FALSE, data |-> NoData]

\* requests.post returns a response or raises.  A failure status and an
\* errors collection come without data or with the data `body`.  The service
\* answers a request without a credential with a failure status.
Responses(payloads, body) ==
    {Raise, HttpError, [HttpError EXCEPT !.data = body]}
        \cup (IF LINEAR_API_KEY # ""
              THEN {GraphqlError, [GraphqlError EXCEPT !.data = body]}
                       \cup {Ok(d) : d \in payloads}
              ELSE {})

TeamNodes == { <<>>, <<[id |-> VALID_TEAM_ID]>> }

ProjectNodes == { <<>>, <<[id |-> VALID_PROJECT_ID]>> }

\* the label sets a team may have
TeamLabelSets ==
    { <<[name |-> <<"b">>, id |-> "L1"]>>,
      <<[name |-> <<"b">>, id |-> "L1"], [name |-> <<"c">>, id |-> "L2"]>> }

\* the label sets the service may return for TEAM_ID: the empty id names no team
LabelPayloads ==
    IF TEAM_ID = "" THEN {[nodes |-> <<>>]} ELSE {[nodes |-> n] : n \in TeamLabelSets}

AllLabels ==
    [nodes |-> <<[name |-> <<"b">>, id |-> "L1"], [name |-> <<"c">>, id |-> "L2"]>>]

\* the payload of a created issue: the service gives the issue a fresh id
IssueCreated == [issueCreate |-> [success |-> TRUE, issue |-> [id |-> Len(submitted)]]]

NotCreated == [issueCreate |-> [success |-> FALSE, issue |-> [id |-> NoId]]]

\* what the service may answer to the next issueCreate: the new issue, or
\* success = false; it creates nothing for the empty team id
CreatePayloads == IF TEAM_ID = "" THEN {NotCreated} ELSE {NotCreated, IssueCreated}

\* ---------------------------------------------------------- graphql_request
graphql_request_ignores_status(resp) ==
    IF resp.errors THEN NoData ELSE resp.data

graphql_request(resp) ==
    IF resp.status # HTTP_OK THEN NoData
    ELSE IF resp.errors THEN NoData
    ELSE resp.data

\* get_teams / get_projects: the nodes, or [] without data
get_nodes(resp) ==
    LET data == graphql_request(resp)
    IN  IF data # NoData THEN data.nodes ELSE <<>>

\* ------------------------------------------------------------ get_label_ids
\* label_map = {label["name"]: label["id"] for label in nodes}: the last node wins
label_map(nodes) ==
    [n \in {nodes[i].name : i \in DOMAIN nodes} |->
        nodes[CHOOSE i \in DOMAIN nodes :
                 nodes[i].name = n /\ \A j \in DOMAIN nodes : j > i => nodes[j].name # n].id]

\* the ids appended for the requested names, in request order
label_ids_first_only(label_names, nodes) ==
    LET lm    == label_map(nodes)
    IN  IF label_names # <<>> /\ label_names[1] \in DOMAIN lm
        THEN <<lm[label_names[1]]>>
        ELSE <<>>

label_ids(label_names, nodes) ==
    LET lm    == label_map(nodes)
        found == SelectSeq(label_names, LAMBDA n : n \in DOMAIN lm)
    IN  [i \in 1..Len(found) |-> lm[found[i]]]

\* the names warned about, in request order
label_misses(label_names, nodes) ==
    LET lm == label_map(nodes)
    IN  SelectSeq(label_names, LAMBDA n : n \notin DOMAIN lm)

\* get_label_ids on the response to its query: the ids returned and the warnings printed
get_label_ids(label_names, resp) ==
    LET data == graphql_request(resp)
    IN  IF data = NoData
        THEN [ids |-> <<>>, warned |-> <<>>]
        ELSE [ids |-> label_ids(label_names, data.nodes),
              warned |-> label_misses(label_names, data.nodes)]

\* ------------------------------------------------------------- create_issue
priority_map_swapped ==
    ("Urgent" :> 1) @@ ("High" :> 3) @@ ("Medium" :> 2) @@ ("Low" :> 4) @@ ("None" :> 0)

priority_map ==
    ("Urgent" :> 1) @@ ("High" :> 2) @@ ("Medium" :> 3) @@ ("Low" :> 4) @@ ("None" :> 0)

\* priority_map.get(priority, 0)
priority_num_defaults_to_medium(priority) ==
    IF priority \in DOMAIN priority_map THEN priority_map[priority] ELSE 3

priority_num(priority) ==
    IF priority \in DOMAIN priority_map THEN priority_map[priority] ELSE 0

\* the estimate step: what is added to the input, whether a warning is printed,
\* whether an exception leaves create_issue
estimate_step(estimate) ==
    IF ~TruthyText(estimate)
    THEN [fields |-> EmptyDict, warned |-> FALSE, raised |-> FALSE]
    ELSE LET r == IntOfFloat(estimate)
         IN  CASE r.kind = "int" ->
                    [fields |-> [estimate |-> r.value], warned |-> FALSE, raised |-> FALSE]
               [] r.kind = "ValueError" ->
                    [fields |-> EmptyDict, warned |-> TRUE, raised |-> FALSE]
               [] OTHER ->
                    [fields |-> EmptyDict, warned |-> FALSE, raised |-> TRUE]

\* variables["input"] of the mutation
issue_input_untitled(title, ids, prio, estimateFields, parent_id) ==
    [teamId |-> TEAM_ID, title |-> "", priority |-> prio, labelIds |-> ids]
        @@ (IF PROJECT_ID # "" THEN [projectId |-> PROJECT_ID] ELSE EmptyDict)
        @@ estimateFields
        @@ (IF parent_id # NoId THEN [parentId |-> parent_id] ELSE EmptyDict)

issue_input(title, ids, prio, estimateFields, parent_id) ==
    [teamId |-> TEAM_ID, title |-> title, priority |-> prio, labelIds |-> ids]
        @@ (IF PROJECT_ID # "" THEN [projectId |-> PROJECT_ID] ELSE EmptyDict)
        @@ estimateFields
        @@ (IF parent_id # NoId THEN [parentId |-> parent_id] ELSE EmptyDict)

\* what create_issue returns for the response to its mutation
created_id(resp) ==
    LET data == graphql_request(resp)
    IN  IF data # NoData /\ data.issueCreate.success
        THEN data.issueCreate.issue.id
        ELSE NoId

\* --------------------------------------------------------------------- main
\* parent_id of lines 273-275
lookup_parent(parent_title, pm) ==
    IF Truthy(parent_title) /\ parent_title \in DOMAIN pm THEN pm[parent_title] ELSE NoId

\* lines 290-291
record_epic_any_type(pm, ticket_type, title, issue_id) ==
    IF issue_id # NoId
    THEN [t \in DOMAIN pm \cup {title} |-> IF t = title THEN issue_id ELSE pm[t]]
    ELSE pm

record_epic_forgets_on_failure(pm, ticket_type, title, issue_id) ==
    IF ticket_type = "Epic" /\ issue_id # NoId
    THEN [t \in DOMAIN pm \cup {title} |-> IF t = title THEN issue_id ELSE pm[t]]
    ELSE IF ticket_type = "Epic"
    THEN [t \in DOMAIN pm \ {title} |-> pm[t]]
    ELSE pm

record_epic_first_wins(pm, ticket_type, title, issue_id) ==
    IF ticket_type = "Epic" /\ issue_id # NoId /\ title \notin DOMAIN pm
    THEN [t \in DOMAIN pm \cup {title} |-> IF t = title THEN issue_id ELSE pm[t]]
    ELSE pm

record_epic(pm, ticket_type, title, issue_id) ==
    IF ticket_type = "Epic" /\ issue_id # NoId
    THEN [t \in DOMAIN pm \cup {title} |-> IF t = title THEN issue_id ELSE pm[t]]
    ELSE pm

\* lines 296-301: what main() reports when the reader is exhausted
end_of_input_empty_is_error(rs) ==
    IF rs = <<>>
    THEN [pc |-> "error", message |-> "error_during_import"]
    ELSE [pc |-> "done", message |-> "import_complete"]

end_of_input(rs) == [pc |-> "done", message |-> "import_complete"]

\* the exceptions open() may raise at line 252
OpenErrors == {"FileNotFoundError", "PermissionError"}

\* lines 303-307: what main() does with an exception of open()
open_failure_goes_on(exc) == [pc |-> "loop", message |-> "csv_not_found"]

open_failure(exc) ==
    IF exc = "FileNotFoundError"
    THEN [pc |-> "error", message |-> "csv_not_found"]
    ELSE [pc |-> "error", message |-> "error_during_import"]

\* lines 306-307: what main() does with an exception raised inside the loop
loop_failure_skips_record == [pc |-> "loop", message |-> "error_during_import"]

loop_failure == [pc |-> "error", message |-> "error_during_import"]

NoCur ==
    [title |-> "", ticket_type |-> "", parent_title |-> "", estimate |-> <<>>,
     parent_id |-> NoId, priority_num |-> 0, label_names |-> <<>>]

Init ==
    /\ LINEAR_API_KEY \in ApiKeys
    /\ TEAM_ID \in TeamIds
    /\ PROJECT_ID \in ProjectIds
    /\ pc = "start"
    /\ message = ""
    /\ teams = <<>>
    /\ projects = <<>>
    /\ header = {}
    /\ rows = <<>>
    /\ cur = NoCur
    /\ parent_map = EmptyDict
    /\ sent = <<>>
    /\ submitted = <<>>
    /\ created = <<>>
    /\ warnings = <<>>
    /\ response = NoResponse
    /\ returned = 0

Config == << LINEAR_API_KEY, TEAM_ID, PROJECT_ID >>

LoopState == << header, rows, cur, parent_map, submitted, created, warnings >>

\* lines 205-213: the API key check, then the teams query is issued
ValidateApiKey ==
    /\ pc = "start"
    /\ IF LINEAR_API_KEY = API_KEY_PLACEHOLDER
       THEN /\ pc' = "halted"
            /\ message' = "set_api_key"
            /\ sent' = sent
       ELSE /\ pc' = "teams"
            /\ message' = message
            /\ sent' = Append(sent, "teams")
    /\ UNCHANGED << Config, teams, projects, LoopState, response, returned >>

\* lines 213-231: the teams answer, the team id check, then the projects query
TeamsResponse ==
    /\ pc = "teams"
    /\ \E resp \in Responses({[nodes |-> n] : n \in TeamNodes},
                             [nodes |-> <<[id |-> VALID_TEAM_ID]>>]) :
        /\ response' = resp
        /\ returned' = returned + 1
        /\ IF resp.raises
           THEN /\ pc' = "crashed"
                /\ UNCHANGED << message, teams, sent >>
           ELSE /\ teams' = get_nodes(resp)
                /\ IF teams' = <<>>
                   THEN pc' = "halted" /\ message' = "no_teams" /\ sent' = sent
                   ELSE IF TEAM_ID = TEAM_ID_PLACEHOLDER
                   THEN pc' = "halted" /\ message' = "set_team_id" /\ sent' = sent
                   ELSE pc' = "projects" /\ message' = message
                        /\ sent' = Append(sent, "projects")
    /\ UNCHANGED << Config, projects, LoopState >>

\* lines 231-249: the projects answer and the project id check
ProjectsResponse ==
    /\ pc = "projects"
    /\ \E resp \in Responses({[nodes |-> n] : n \in ProjectNodes},
                             [nodes |-> <<[id |-> VALID_PROJECT_ID]>>]) :
        /\ response' = resp
        /\ returned' = returned + 1
        /\ IF resp.raises
           THEN /\ pc' = "crashed"
                /\ UNCHANGED << message, projects >>
           ELSE /\ projects' = get_nodes(resp)
                /\ IF PROJECT_ID = PROJECT_ID_PLACEHOLDER
                   THEN pc' = "halted" /\ message' = "set_project_id"
                   ELSE pc' = "open" /\ message' = "importing"
    /\ UNCHANGED << Config, teams, LoopState, sent >>

\* lines 251-256 and 303-307: open the file, read the header, create parent_map
OpenCsv ==
    /\ pc = "open"
    /\ \/ /\ \E exc \in OpenErrors :
                /\ pc' = open_failure(exc).pc
                /\ message' = open_failure(exc).message
          /\ UNCHANGED << header, parent_map >>
       \/ /\ \E h \in Headers : header' = h
          /\ parent_map' = EmptyDict
          /\ pc' = "loop"
          /\ message' = message
    /\ UNCHANGED << Config, teams, projects, rows, cur, sent, submitted, created,
                    warnings, response, returned >>

\* lines 258-275 and 129-144, 111: the reader yields the next row or ends; for
\* a row the fields are read, the parent id is looked up, the priority mapped,
\* the label names split, and the labels query issued.  A short row whose
\* Labels is None raises AttributeError at line 143, caught at line 306.
ReadRow ==
    /\ pc = "loop"
    /\ \/ /\ pc' = end_of_input(rows).pc
          /\ message' = end_of_input(rows).message
          /\ UNCHANGED << rows, cur, sent >>
       \/ \E r \in LinkRows \cup FieldRows :
               LET row          == [c \in header |-> r[c]]
                   title        == RowGet(row, "Title", "")
                   parent_title == RowGet(row, "Parent", "")
                   ticket_type  == RowGet(row, "Type", "")
                   labels       == RowGet(row, "Labels", <<>>)
                   estimate     == RowGet(row, "Estimate", <<>>)
                   priority     == RowGet(row, "Priority", "Medium")
               IN  /\ InInput(Append(rows, row), header)
                   /\ rows' = Append(rows, row)
                   /\ cur' = [title        |-> title,
                              ticket_type  |-> ticket_type,
                              parent_title |-> parent_title,
                              estimate     |-> estimate,
                              parent_id    |-> lookup_parent(parent_title, parent_map),
                              priority_num |-> priority_num(priority),
                              label_names  |-> IF labels = NoneText THEN <<>>
                                               ELSE SplitLabels(labels)]
                   /\ IF labels = NoneText
                      THEN pc' = loop_failure.pc /\ message' = loop_failure.message
                           /\ sent' = sent
                      ELSE pc' = "labels" /\ message' = message
                           /\ sent' = Append(sent, "labels")
    /\ response' = NoResponse
    /\ UNCHANGED << Config, teams, projects, header, parent_map, submitted, created,
                    warnings, returned >>

\* lines 111-126 and 160-184: the labels answer; the label ids are resolved,
\* the input is built, the estimate parsed, and the mutation issued.  An
\* exception of requests.post or an OverflowError of int() ends the loop at
\* line 306.
LabelsResponse ==
    /\ pc = "labels"
    /\ \E resp \in Responses(LabelPayloads, AllLabels) :
         LET k   == Len(rows)
             res == get_label_ids(cur.label_names, resp)
             est == estimate_step(cur.estimate)
             inp == issue_input(cur.title, res.ids, cur.priority_num, est.fields,
                                cur.parent_id)
             w1  == [i \in 1..Len(res.warned) |->
                        [rec |-> k, kind |-> "label", name |-> res.warned[i]]]
             w2  == IF est.warned
                    THEN <<[rec |-> k, kind |-> "estimate", name |-> cur.estimate]>>
                    ELSE <<>>
         IN  /\ response' = resp
             /\ returned' = returned + 1
             /\ IF resp.raises
                THEN /\ pc' = loop_failure.pc
                     /\ message' = loop_failure.message
                     /\ UNCHANGED << sent, submitted, warnings >>
                ELSE IF est.raised
                THEN /\ pc' = loop_failure.pc
                     /\ message' = loop_failure.message
                     /\ warnings' = warnings \o w1
                     /\ UNCHANGED << sent, submitted >>
                ELSE /\ pc' = "create"
                     /\ message' = message
                     /\ warnings' = warnings \o w1 \o w2
                     /\ sent' = Append(sent, "create")
                     /\ submitted' = Append(submitted, [rec |-> k, input |-> inp])
    /\ UNCHANGED << Config, teams, projects, header, rows, cur, parent_map, created >>

\* lines 184-192 and 289-294: the answer to the mutation; create_issue returns
\* the new id or None, a created epic is registered, the loop sleeps and goes on
CreateResponse ==
    /\ pc = "create"
    /\ \E resp \in Responses(CreatePayloads, IssueCreated) :
         LET k        == Len(rows)
             issue_id == created_id(resp)
         IN  /\ response' = resp
             /\ returned' = returned + 1
             /\ IF resp.raises
                THEN /\ pc' = loop_failure.pc
                     /\ message' = loop_failure.message
                     /\ UNCHANGED << parent_map, created >>
                ELSE /\ pc' = "loop"
                     /\ message' = message
                     /\ created' = Append(created, [rec |-> k, id |-> issue_id])
                     /\ parent_map' = record_epic(parent_map, cur.ticket_type,
                                                  cur.title, issue_id)
    /\ UNCHANGED << Config, teams, projects, header, rows, cur, sent, submitted,
                    warnings >>

Next ==
    \/ ValidateApiKey
    \/ TeamsResponse
    \/ ProjectsResponse
    \/ OpenCsv
    \/ ReadRow
    \/ LabelsResponse
    \/ CreateResponse

Spec == Init /\ [][Next]_vars

\* ----------------------------------------------------------------- helpers
Terminal == {"done", "halted", "error", "crashed"}

Title(k) == RowGet(rows[k], "Title", "")

Parent(k) == RowGet(rows[k], "Parent", "")

Type(k) == RowGet(rows[k], "Type", "")

Labels(k) == RowGet(rows[k], "Labels", <<>>)

Estimate(k) == RowGet(rows[k], "Estimate", <<>>)

Priority(k) == RowGet(rows[k], "Priority", "Medium")

HasParentId(inp) == "parentId" \in DOMAIN inp

\* record e is an epic that was created, with id x
CreatedEpic(e, x) ==
    /\ x # NoId
    /\ Type(e) = "Epic"
    /\ \E i \in DOMAIN created : created[i].rec = e /\ created[i].id = x

\* a configuration value that is empty or still the placeholder
Unset(v, placeholder) == v = "" \/ v = placeholder

ValidConfig ==
    /\ LINEAR_API_KEY = VALID_API_KEY
    /\ TEAM_ID = VALID_TEAM_ID
    /\ PROJECT_ID = VALID_PROJECT_ID

\* --------------------------------------------------------------- properties

\* C1 as stated: every record after a created epic whose Parent names the
\* epic's title is submitted with that epic's id as parentId, and a record
\* whose Parent names no earlier title is submitted without parentId.  (A
\* record with an empty Parent names no title.)
C1_AsStated ==
    \A j \in DOMAIN submitted :
        LET r == submitted[j].rec
            inp == submitted[j].input
        IN  /\ \A e \in 1..(r - 1) : \A x \in 1..Len(submitted) :
                (CreatedEpic(e, x) /\ Truthy(Parent(r)) /\ Title(e) = Parent(r))
                    => (HasParentId(inp) /\ inp.parentId = x)
            /\ (\A e \in 1..(r - 1) : Title(e) # Parent(r)) => ~HasParentId(inp)

\* the created epics before record r that carry the title t
EpicsBefore(r, t) ==
    {e \in 1..(r - 1) : Title(e) = t /\ \E x \in 1..Len(submitted) : CreatedEpic(e, x)}

\* C1 amended: a submitted record whose Parent is a non-empty title carries
\* as parentId the id of the latest earlier created epic with that title;
\* a record whose Parent is empty, or names a title that no earlier record
\* has, is submitted with no parentId.
C1_ParentIsLatestEpic ==
    \A j \in DOMAIN submitted :
        LET r == submitted[j].rec
            inp == submitted[j].input
            es == EpicsBefore(r, Parent(r))
        IN  /\ (Truthy(Parent(r)) /\ es # {})
                => LET last == CHOOSE e \in es : \A f \in es : f <= e
                   IN  HasParentId(inp) /\ CreatedEpic(last, inp.parentId)
            /\ (~Truthy(Parent(r)) \/ \A e \in 1..(r - 1) : Title(e) # Parent(r))
                => ~HasParentId(inp)

\* two created epics share a title and a later record naming it was
\* submitted with the second one's id
C1_Witness ==
    \E j \in DOMAIN submitted : \E e1, e2 \in 1..Len(rows) :
        /\ e1 < e2 /\ e2 < submitted[j].rec
        /\ Title(e1) = Title(e2) /\ Parent(submitted[j].rec) = Title(e2)
        /\ \E x \in 1..Len(submitted) : CreatedEpic(e1, x)
        /\ HasParentId(submitted[j].input)
        /\ CreatedEpic(e2, submitted[j].input.parentId)

\* C2: a submitted parentId P for a record whose Parent is T is the id that an
\* earlier record with title T and Type "Epic" was created with; so titles of
\* non-epics, of failed epics and of later records never yield a parentId.
C2_ParentIdHasEpicOrigin ==
    \A j \in DOMAIN submitted :
        LET r == submitted[j].rec
            inp == submitted[j].input
        IN  HasParentId(inp)
                => \E e \in 1..(r - 1) :
                       Title(e) = Parent(r) /\ CreatedEpic(e, inp.parentId)

\* a request went out with a parentId although an earlier created record
\* that is not an epic carries the same title
C2_Witness ==
    \E j \in DOMAIN submitted :
        /\ HasParentId(submitted[j].input)
        /\ \E e \in 1..(submitted[j].rec - 1) :
              /\ Title(e) = Parent(submitted[j].rec)
              /\ Type(e) # "Epic"
              /\ \E i \in DOMAIN created : created[i].rec = e /\ created[i].id # NoId

\* the request of record k went out
Submitted(k) == \E j \in DOMAIN submitted : submitted[j].rec = k

\* the creation of record k returned without an issue
CreationFailed(k) == \E i \in DOMAIN created : created[i].rec = k /\ created[i].id = NoId

\* a response with a non-success status
FailedStatus(r) == ~r.raises /\ r.status # HTTP_OK

\* C3 as stated: when the creation of record k fails, the run is not aborted,
\* nothing is registered for k, and every record after k has its creation
\* request submitted.  (Valid configuration, no call of requests.post raising.)
C3_AsStated ==
    \A k \in DOMAIN rows :
        (ValidConfig /\ CreationFailed(k) /\ ~response.raises)
            => /\ pc # "error"
               /\ \A t \in DOMAIN parent_map : \E e \in DOMAIN rows :
                      e # k /\ Title(e) = t /\ CreatedEpic(e, parent_map[t])
               /\ pc \in Terminal => \A k2 \in (k + 1)..Len(rows) : Submitted(k2)

\* C4: when the labels query returns the team's label set, get_label_ids
\* returns one id per requested name that the set has, in request order, each
\* the id of the label with that name; every other requested name is warned
\* about and contributes nothing; the requested names are the non-empty,
\* stripped parts of the Labels text.
C4_LabelIdsAreExistingSubset ==
    (pc = "create" /\ graphql_request(response) # NoData)
        => LET nodes == graphql_request(response).nodes
               names == cur.label_names
               k     == Len(rows)
               ids   == submitted[Len(submitted)].input.labelIds
               hit   == {i \in DOMAIN names : \E n \in DOMAIN nodes : nodes[n].name = names[i]}
               ws    == SelectSeq(warnings, LAMBDA w : w.rec = k /\ w.kind = "label")
           IN  /\ Len(ids) = Cardinality(hit)
               /\ \A i \in hit : \E n \in DOMAIN nodes :
                      /\ nodes[n].name = names[i]
                      /\ nodes[n].id = ids[Cardinality({h \in hit : h <= i})]
               /\ Len(ws) = Len(names) - Cardinality(hit)
               /\ \A i \in DOMAIN names \ hit :
                      ws[Cardinality({m \in DOMAIN names \ hit : m <= i})].name = names[i]
               /\ \A i \in DOMAIN names :
                      /\ names[i] # <<>>
                      /\ ~IsSpace(names[i][1])
                      /\ ~IsSpace(names[i][Len(names[i])])

\* a name the team lacks came before one it has: the id of the second is
\* returned and the first is warned about
C4_Witness ==
    /\ pc = "create"
    /\ graphql_request(response) # NoData
    /\ cur.label_names = << <<"x">>, <<"b">> >>
    /\ submitted[Len(submitted)].input.labelIds = <<"L1">>
    /\ \E w \in DOMAIN warnings : warnings[w].kind = "label" /\ warnings[w].name = <<"x">>

\* C5 as stated: a record with a non-empty Estimate always has its creation
\* request submitted; the request carries the truncated number when the text
\* parses and no estimate when it does not; the run is never aborted because
\* of the estimate.  (Valid configuration, rows with Labels, no call of
\* requests.post raising.)
C5_AsStated ==
    \A k \in DOMAIN rows :
        (ValidConfig /\ TruthyText(Estimate(k)) /\ Labels(k) # NoneText /\ ~response.raises
         /\ (pc \in Terminal \/ k < Len(rows)))
            => \E j \in DOMAIN submitted :
                   /\ submitted[j].rec = k
                   /\ IntOfFloat(Estimate(k)).kind = "int"
                        => /\ "estimate" \in DOMAIN submitted[j].input
                           /\ submitted[j].input.estimate = IntOfFloat(Estimate(k)).value
                   /\ IntOfFloat(Estimate(k)).kind # "int"
                        => "estimate" \notin DOMAIN submitted[j].input

\* C6: the priority ordinal of a request is Urgent 1, High 2, Medium 3, Low 4,
\* None 0, and 0 for every other value of the priority passed to
\* create_issue, the empty string, another casing and None included.
C6_PriorityTable ==
    \A j \in DOMAIN submitted :
        LET p == Priority(submitted[j].rec)
        IN  submitted[j].input.priority =
                CASE p = "Urgent" -> 1
                  [] p = "High"   -> 2
                  [] p = "Medium" -> 3
                  [] p = "Low"    -> 4
                  [] OTHER        -> 0

\* requests went out for a priority in another casing and for an absent one,
\* both with ordinal 0
C6_Witness ==
    \E j \in DOMAIN submitted :
        /\ Priority(submitted[j].rec) \in {"urgent", None}
        /\ submitted[j].input.priority = 0

\* C7 as stated: with the credential, the team id or the project id empty or
\* a placeholder, the run halts before the import loop, so that no creation
\* request is ever submitted (a request is submitted only for a record that
\* was read inside the loop).
C7_AsStated ==
    (\/ Unset(LINEAR_API_KEY, API_KEY_PLACEHOLDER)
     \/ Unset(TEAM_ID, TEAM_ID_PLACEHOLDER)
     \/ Unset(PROJECT_ID, PROJECT_ID_PLACEHOLDER))
        => submitted = <<>>

C9_AsStated ==
    (ValidConfig /\ pc \in Terminal /\ header # {} /\ ~response.raises
     /\ \A k \in DOMAIN rows : Labels(k) # NoneText)
        => /\ pc = "done"
           /\ Len(submitted) = Len(rows)
           /\ Len(created) = Len(rows)
           /\ \A k \in DOMAIN rows : submitted[k].rec = k /\ created[k].rec = k

\* C10: with a valid configuration and an input that yields no record, the
\* run ends completed, not in error: no labels query and no creation request
\* was issued, nothing was created and parent_map is empty.
C10_EmptyInputCompletes ==
    (ValidConfig /\ header # {} /\ rows = <<>> /\ pc \in Terminal)
        => /\ pc = "done"
           /\ message = "import_complete"
           /\ sent = <<"teams", "projects">>
           /\ submitted = <<>>
           /\ created = <<>>
           /\ DOMAIN parent_map = {}

\* the run over an empty input has completed
C10_Witness ==
    /\ ValidConfig
    /\ header # {}
    /\ rows = <<>>
    /\ pc = "done"

\* the requests issued for a record: its label query and its creation request
RecordRequests(log) == { i \in DOMAIN log : log[i] \in {"labels", "create"} }

\* C11: a step of main() at the opening of the file that yields no reader
\* ends the run in the error state with no record read, no label query and
\* no creation request issued; and the error state is final, so the run never
\* completes afterwards.
C11_OpenFailureAborts ==
    [][ /\ (pc = "open" /\ header' = {}) =>
              /\ pc' = "error"
              /\ rows' = <<>>
              /\ RecordRequests(sent') = {}
              /\ submitted' = <<>> /\ created' = <<>>
        /\ pc # "error" ]_vars

C11_Witness ==
    /\ pc = "error"
    /\ header = {}
    /\ message = "csv_not_found"
    /\ sent = <<"teams", "projects">>

\* the step is the return of create_issue for the record being processed, with id x
CreationReturns(x) ==
    /\ pc = "create"
    /\ created' = Append(created, [rec |-> Len(rows), id |-> x])

\* C12: no step removes a key of parent_map; a step that changes parent_map
\* is the return of a successful creation of a record of Type "Epic" and sets
\* exactly that record's title to the new id, every other entry kept; the
\* return of a failed creation or of a record of another type leaves
\* parent_map as it was.
C12_ParentMapOnlyGrows ==
    [][ LET k == Len(rows)
        IN  /\ DOMAIN parent_map \subseteq DOMAIN parent_map'
            /\ parent_map' # parent_map =>
                  \E x \in 1..Len(submitted) :
                      /\ CreationReturns(x)
                      /\ Type(k) = "Epic"
                      /\ DOMAIN parent_map' = DOMAIN parent_map \cup {Title(k)}
                      /\ parent_map'[Title(k)] = x
                      /\ \A t \in DOMAIN parent_map \ {Title(k)} :
                             parent_map'[t] = parent_map[t]
            /\ (CreationReturns(NoId) \/ (pc = "create" /\ Type(k) # "Epic")) =>
                  parent_map' = parent_map
            /\ \A x \in 1..Len(submitted) :
                  (CreationReturns(x) /\ Type(k) = "Epic") =>
                      (Title(k) \in DOMAIN parent_map' /\ parent_map'[Title(k)] = x) ]_vars

\* a duplicate epic whose creation failed has left the earlier entry in place
C12_Witness ==
    /\ Len(created) = 2
    /\ Type(1) = "Epic" /\ Type(2) = "Epic"
    /\ Title(1) = Title(2)
    /\ created[1].id # NoId
    /\ created[2].id = NoId
    /\ Title(1) \in DOMAIN parent_map
    /\ parent_map[Title(1)] = created[1].id

\* the gateway requests issued whose call has not ended yet
Outstanding == Len(sent) - returned

\* create_issue has returned for record i
CreationReturned(i) == \E j \in DOMAIN created : created[j].rec = i

\* parent_map holds the updates of lines 290-291 for the records 1..n: its keys
\* are the titles of the created epics among them, each with the id of the
\* last such epic
HierarchyApplied(n) ==
    /\ DOMAIN parent_map =
          { Title(e) : e \in { e \in 1..n : \E x \in 1..Len(submitted) : CreatedEpic(e, x) } }
    /\ \A e \in 1..n : \A x \in 1..Len(submitted) :
          (/\ CreatedEpic(e, x)
           /\ \A e2 \in (e + 1)..n :
                 Title(e2) = Title(e) => ~\E y \in 1..Len(submitted) : CreatedEpic(e2, y))
              => parent_map[Title(e)] = x

\* the creation requests made so far are those of the records 1, 2, ... in order
InInputOrder ==
    \A i \in DOMAIN submitted :
        /\ submitted[i].rec = i
        /\ i <= Len(rows)
        /\ submitted[i].input.title = Title(i)

\* C13: at most one gateway request is outstanding; the creation requests
\* follow the input order; a run that completes has made exactly one creation
\* request per input record; and the creation request of a record is issued
\* only when no other request is outstanding but its own label query, which
\* ends in that step, create_issue has returned for every earlier record and
\* parent_map holds the updates of all of them.
C13_SequentialInInputOrder ==
    /\ [](Outstanding \in {0, 1})
    /\ [](InInputOrder)
    /\ [](pc = "done" => Len(submitted) = Len(rows) /\ Len(created) = Len(rows))
    /\ [][ \A k \in 1..Len(rows) :
              (Len(submitted') = Len(submitted) + 1 /\ submitted'[Len(submitted')].rec = k) =>
                  /\ Outstanding = 1 /\ returned' = returned + 1
                  /\ \A i \in 1..(k - 1) : Submitted(i) /\ CreationReturned(i)
                  /\ HierarchyApplied(k - 1) ]_vars

\* a run over three records has completed with the second creation failed
C13_Witness ==
    /\ pc = "done"
    /\ Len(rows) = 3
    /\ Len(submitted) = 3
    /\ created[2].id = NoId
    /\ created[3].id # NoId
    /\ parent_map # EmptyDict

\* the step raises an exception inside the loop: Labels is None at line 143,
\* requests.post raises at line 41, or int() overflows at line 177
ExceptionStep ==
    \/ /\ pc = "loop"
       /\ Len(rows') = Len(rows) + 1
       /\ RowGet(rows'[Len(rows')], "Labels", <<>>) = NoneText
    \/ /\ pc \in {"labels", "create"}
       /\ returned' = returned + 1
       /\ response'.raises
    \/ /\ pc = "labels"
       /\ returned' = returned + 1
       /\ ~response'.raises
       /\ estimate_step(cur.estimate).raised

IsPrefix(s, t) == Len(s) <= Len(t) /\ \A i \in DOMAIN s : t[i] = s[i]

\* C14: a step of the loop that raises an exception ends the run in the error
\* state, with no creation result recorded for the current record; the error
\* state is final, so no later record is read or submitted; in the error
\* state after an exception at record k every earlier record has its creation
\* result and none after k is read or submitted; and no step ever removes or
\* alters a recorded creation.
C14_ExceptionAbortsWithoutRollback ==
    /\ [][ /\ ExceptionStep =>
                 /\ pc' = "error"
                 /\ created' = created
                 /\ submitted' = submitted
                 /\ parent_map' = parent_map
           /\ pc # "error"
           /\ IsPrefix(created, created')
           /\ IsPrefix(submitted, submitted') ]_vars
    /\ []((pc = "error" /\ header # {}) =>
             LET k == Len(rows)
             IN  /\ k >= 1
                 /\ Len(created) = k - 1
                 /\ \A i \in 1..(k - 1) : Submitted(i) /\ CreationReturned(i)
                 /\ \A j \in DOMAIN submitted : submitted[j].rec <= k)

\* the third record's estimate overflowed after an issue was created for the
\* first record and the second creation failed
C14_Witness ==
    /\ pc = "error"
    /\ Len(rows) = 3
    /\ Len(created) = 2
    /\ created[1].id # NoId
    /\ Len(submitted) = 2
    /\ ~response.raises
    /\ estimate_step(cur.estimate).raised

\* the priority names with an ordinal of their own
PriorityNames == {"Urgent", "High", "Medium", "Low", "None"}

\* record k has no Priority value: the file has no Priority column
PriorityAbsent(k) == "Priority" \notin DOMAIN rows[k]

\* record k has a Priority value that is not a priority name
PriorityUnrecognized(k) == ~PriorityAbsent(k) /\ rows[k]["Priority"] \notin PriorityNames

\* C15 as stated: every creation request carries a priority in 0..4, and a
\* record whose Priority is absent or unrecognized is submitted with priority 0.
C15_AsStated ==
    \A j \in DOMAIN submitted :
        LET k == submitted[j].rec
        IN  /\ submitted[j].input.priority \in 0..4
            /\ (PriorityAbsent(k) \/ PriorityUnrecognized(k)) =>
                   submitted[j].input.priority = 0

\* C15, amended: every creation request carries a priority in 0..4; a record
\* of a file without a Priority column is submitted with priority 3, that of
\* "Medium"; a record whose Priority value is not a priority name (another
\* text, the empty text, or the missing value of a short row) is submitted
\* with priority 0.
C15_AbsentIsMediumUnrecognizedIsZero ==
    \A j \in DOMAIN submitted :
        LET k == submitted[j].rec
        IN  /\ submitted[j].input.priority \in 0..4
            /\ PriorityAbsent(k) => submitted[j].input.priority = 3
            /\ PriorityUnrecognized(k) => submitted[j].input.priority = 0

\* a request was submitted for a record of a file without the Priority column
C15_Witness ==
    \E j \in DOMAIN submitted :
        /\ PriorityAbsent(submitted[j].rec)
        /\ submitted[j].input.priority = 3

\* the label query of record k has been answered (requests.post did not raise)
LabelQueryAnswered(k) ==
    /\ Labels(k) # NoneText
    /\ \/ k < Len(rows)
       \/ /\ k = Len(rows)
          /\ pc # "labels"
          /\ ~(response.raises /\ ~Submitted(k))

\* the positions of `kind` in the request log
Requests(kind) == { i \in DOMAIN sent : sent[i] = kind }

\* C16 as stated: every record whose label query has been answered has its
\* creation request submitted, after exactly one label query and as the only
\* creation request of the record; and when the answer to the label query was
\* a failure status or carried errors, that creation request carries no label
\* id.  (Rows with Labels, no call of requests.post raising.)
C16_AsStated ==
    /\ \A k \in DOMAIN rows :
          LabelQueryAnswered(k) =>
              /\ Cardinality({ j \in DOMAIN submitted : submitted[j].rec = k }) = 1
              /\ Cardinality(Requests("labels")) >= k
              /\ Cardinality(Requests("create")) >= k
    /\ \A i \in Requests("create") : i > 1 /\ sent[i - 1] = "labels"
    /\ (pc = "create" /\ (FailedStatus(response) \/ response.errors)) =>
          submitted[Len(submitted)].input.labelIds = <<>>

====
